---- MODULE Spec2Model ----
(***************************************************************************)
(* Continuation power flow (continuation_power_flow.py): the parametriza-  *)
(* tion function cpf_p, the predictor, the Newton corrector and the driver *)
(* continuation_nr, as a state machine.                                    *)
(*                                                                         *)
(* Numbers.  A Python float is modelled by an exact rational <<n, d>> in   *)
(* lowest terms with d > 0; NaN is <<0, 0>>.  Arithmetic propagates NaN    *)
(* and every ordered comparison with NaN is FALSE, as in IEEE-754.         *)
(*                                                                         *)
(* Network.  Three buses 0 (slack), 1 and 2.  A complex voltage is kept in *)
(* polar form [m, a] (magnitude, angle); the bounded inputs keep m > 0 and *)
(* |a| < pi, where abs/angle of m*exp(j*a) give back m and a.  The network *)
(* equations (Ybus, the Jacobian builder, the sparse solver) are external: *)
(* the result of a linear solve and the size of the power mismatch are     *)
(* nondeterministic choices from bounded sets.                             *)
(***************************************************************************)
EXTENDS Integers, Sequences, FiniteSets, TLC

\* ------------------------------------------------------------------ bounds
MaxContSteps == 3

MaxIt == 1

LamMax == 7

\* number of buses (columns of ptdf) with a nonzero sensitivity
MaxCols == 2

\* ------------------------------------------------------- rational numbers
Abs(n) == IF n < 0 THEN -n ELSE n

RECURSIVE GCD(_, _)
GCD(a, b) == IF b = 0 THEN a ELSE GCD(b, a % b)

NaN == <<0, 0>>

IsNaN(x) == x[2] = 0

Q(n, d) ==
  IF d = 0 THEN NaN
  ELSE LET g == GCD(Abs(n), Abs(d))
           s == IF d < 0 THEN -1 ELSE 1
       IN <<(s * n) \div g, (s * d) \div g>>

R(n) == <<n, 1>>

RAdd(x, y) == IF IsNaN(x) \/ IsNaN(y) THEN NaN ELSE Q(x[1] * y[2] + y[1] * x[2], x[2] * y[2])

RNeg(x) == IF IsNaN(x) THEN NaN ELSE <<-x[1], x[2]>>

RSub(x, y) == RAdd(x, RNeg(y))

RMul(x, y) == IF IsNaN(x) \/ IsNaN(y) THEN NaN ELSE Q(x[1] * y[1], x[2] * y[2])

RDiv(x, y) == IF IsNaN(x) \/ IsNaN(y) \/ y[1] = 0 THEN NaN ELSE Q(x[1] * y[2], x[2] * y[1])

RAbs(x) == IF IsNaN(x) THEN NaN ELSE <<Abs(x[1]), x[2]>>

\* x < y, decided by the integer parts when they differ and by the fractional
\* parts otherwise, which keeps the cross products inside the integer range
RLt(x, y) ==
  /\ ~IsNaN(x) /\ ~IsNaN(y)
  /\ LET fx == x[1] \div x[2]
         fy == y[1] \div y[2]
     IN IF fx # fy THEN fx < fy ELSE (x[1] % x[2]) * y[2] < (y[1] % y[2]) * x[2]

RLe(x, y) == ~IsNaN(x) /\ ~IsNaN(y) /\ (x = y \/ RLt(x, y))

RGt(x, y) == RLt(y, x)

RGe(x, y) == RLe(y, x)

REq(x, y) == ~IsNaN(x) /\ ~IsNaN(y) /\ x = y

\* max as numpy's norm(., Inf) takes it: NaN if any entry is NaN
RMax(x, y) == IF IsNaN(x) \/ IsNaN(y) THEN NaN ELSE IF RLt(x, y) THEN y ELSE x

\* ------------------------------------------------------------ enumerations
Nose == "Nose"

Full == "Full curve"

VCStopAt == {Nose, Full}

Natural == "Natural"

ArcLength == "Arc Length"

PseudoArcLength == "Pseudo Arc Length"

VCParametrization == {Natural, ArcLength, PseudoArcLength}

NoControl == "NoControl"

Direct == "Direct"

\* ------------------------------------------------------------------ network
nb == 3

Bus == 0 .. (nb - 1)

\* r_[a, b]: concatenation of index arrays
r_(a, b) == a \o b

\* x[idx] for an index array idx: the sequence of the selected entries
Take(x, idx) == [k \in 1 .. Len(idx) |-> x[idx[k]]]

Angle(V) == [b \in Bus |-> V[b].a]

Mag(V) == [b \in Bus |-> V[b].m]

NaNV == [b \in Bus |-> [m |-> NaN, a |-> NaN]]

RECURSIVE SumSq(_)
SumSq(s) == IF Len(s) = 0 THEN R(0) ELSE RAdd(RMul(Head(s), Head(s)), SumSq(Tail(s)))

RECURSIVE Dot(_, _)
Dot(a, b) == IF Len(a) = 0 THEN R(0) ELSE RAdd(RMul(Head(a), Head(b)), Dot(Tail(a), Tail(b)))

RECURSIVE NormInf(_)
NormInf(s) == IF Len(s) = 0 THEN R(0) ELSE RMax(RAbs(Head(s)), NormInf(Tail(s)))

VSub(a, b) == [k \in 1 .. Len(a) |-> RSub(a[k], b[k])]

\* ------------------------------------------------ parametrization function
\* cpf_p whose arc-length branch subtracts step instead of step squared
cpf_p_NoSquare(parametrization, step, z, V, lam, V_prev, lamprv, pv, pq, pvpq) ==
  IF parametrization = Natural THEN
    IF RGe(lam, lamprv) THEN RSub(RSub(lam, lamprv), step)
    ELSE RSub(RSub(lamprv, lam), step)
  ELSE IF parametrization = ArcLength THEN
    LET a == r_(r_(Take(Angle(V), pvpq), Take(Mag(V), pq)), <<lam>>)
        b == r_(r_(Take(Angle(V_prev), pvpq), Take(Mag(V_prev), pq)), <<lamprv>>)
    IN RSub(SumSq(VSub(a, b)), step)
  ELSE IF parametrization = PseudoArcLength THEN
    LET a == Take(z, r_(r_(r_(pv, pq), [k \in 1 .. Len(pq) |-> nb + pq[k]]), <<2 * nb>>))
        b == r_(r_(Take(Angle(V), pvpq), Take(Mag(V), pq)), <<lam>>)
        c == r_(r_(Take(Angle(V_prev), pvpq), Take(Mag(V_prev), pq)), <<lamprv>>)
    IN RSub(Dot(a, VSub(b, c)), step)
  ELSE
    IF RGe(lam, lamprv) THEN RSub(RSub(lam, lamprv), step)
    ELSE RSub(RSub(lamprv, lam), step)

\* lines 26-111
cpf_p(parametrization, step, z, V, lam, V_prev, lamprv, pv, pq, pvpq) ==
  IF parametrization = Natural THEN
    IF RGe(lam, lamprv) THEN RSub(RSub(lam, lamprv), step)
    ELSE RSub(RSub(lamprv, lam), step)
  ELSE IF parametrization = ArcLength THEN
    LET a == r_(r_(Take(Angle(V), pvpq), Take(Mag(V), pq)), <<lam>>)
        b == r_(r_(Take(Angle(V_prev), pvpq), Take(Mag(V_prev), pq)), <<lamprv>>)
    IN RSub(SumSq(VSub(a, b)), RMul(step, step))
  ELSE IF parametrization = PseudoArcLength THEN
    LET a == Take(z, r_(r_(r_(pv, pq), [k \in 1 .. Len(pq) |-> nb + pq[k]]), <<2 * nb>>))
        b == r_(r_(Take(Angle(V), pvpq), Take(Mag(V), pq)), <<lam>>)
        c == r_(r_(Take(Angle(V_prev), pvpq), Take(Mag(V_prev), pq)), <<lamprv>>)
    IN RSub(Dot(a, VSub(b, c)), step)
  ELSE
    IF RGe(lam, lamprv) THEN RSub(RSub(lam, lamprv), step)
    ELSE RSub(RSub(lamprv, lam), step)

\* zeros(n)
zeros(n) == [k \in 1 .. n |-> R(0)]

\* cpf_p_jac whose natural branch returns dP_dlam = 1 on both sides
cpf_p_jac_AlwaysPlus(parametrization, z, V, lam, Vprv, lamprv, pv, pq, pvpq) ==
  IF parametrization = Natural THEN
    [dP_dV |-> zeros(Len(pv) + 2 * Len(pq)),
     dP_dlam |-> R(1)]
  ELSE IF parametrization = ArcLength THEN
    [dP_dV |-> LET d == VSub(r_(Take(Angle(V), pvpq), Take(Mag(V), pq)),
                             r_(Take(Angle(Vprv), pvpq), Take(Mag(Vprv), pq)))
               IN [k \in 1 .. Len(d) |-> RMul(R(2), d[k])],
     dP_dlam |-> IF REq(lam, lamprv) THEN R(1) ELSE RMul(R(2), RSub(lam, lamprv))]
  ELSE IF parametrization = PseudoArcLength THEN
    [dP_dV |-> Take(z, r_(r_(pv, pq), [k \in 1 .. Len(pq) |-> nb + pq[k]])),
     dP_dlam |-> z[2 * nb]]
  ELSE
    [dP_dV |-> Take(z, r_(r_(pv, pq), [k \in 1 .. Len(pq) |-> nb + pq[k]])),
     dP_dlam |-> z[2 * nb]]

\* cpf_p_jac without the first-step case of the arc length branch
cpf_p_jac_NoFirstStep(parametrization, z, V, lam, Vprv, lamprv, pv, pq, pvpq) ==
  IF parametrization = Natural THEN
    [dP_dV |-> zeros(Len(pv) + 2 * Len(pq)),
     dP_dlam |-> IF RGe(lam, lamprv) THEN R(1) ELSE R(-1)]
  ELSE IF parametrization = ArcLength THEN
    [dP_dV |-> LET d == VSub(r_(Take(Angle(V), pvpq), Take(Mag(V), pq)),
                             r_(Take(Angle(Vprv), pvpq), Take(Mag(Vprv), pq)))
               IN [k \in 1 .. Len(d) |-> RMul(R(2), d[k])],
     dP_dlam |-> RMul(R(2), RSub(lam, lamprv))]
  ELSE
    [dP_dV |-> Take(z, r_(r_(pv, pq), [k \in 1 .. Len(pq) |-> nb + pq[k]])),
     dP_dlam |-> z[2 * nb]]

\* cpf_p_jac whose pseudo arc length branch takes the magnitude slots of z
\* at pq instead of nb + pq
cpf_p_jac_AngleSlots(parametrization, z, V, lam, Vprv, lamprv, pv, pq, pvpq) ==
  IF parametrization = Natural THEN
    [dP_dV |-> zeros(Len(pv) + 2 * Len(pq)),
     dP_dlam |-> IF RGe(lam, lamprv) THEN R(1) ELSE R(-1)]
  ELSE IF parametrization = ArcLength THEN
    [dP_dV |-> LET d == VSub(r_(Take(Angle(V), pvpq), Take(Mag(V), pq)),
                             r_(Take(Angle(Vprv), pvpq), Take(Mag(Vprv), pq)))
               IN [k \in 1 .. Len(d) |-> RMul(R(2), d[k])],
     dP_dlam |-> IF REq(lam, lamprv) THEN R(1) ELSE RMul(R(2), RSub(lam, lamprv))]
  ELSE
    [dP_dV |-> Take(z, r_(r_(pv, pq), pq)),
     dP_dlam |-> z[2 * nb]]

\* lines 114-200: the derivatives of the parametrization function
cpf_p_jac(parametrization, z, V, lam, Vprv, lamprv, pv, pq, pvpq) ==
  IF parametrization = Natural THEN
    [dP_dV |-> zeros(Len(pv) + 2 * Len(pq)),
     dP_dlam |-> IF RGe(lam, lamprv) THEN R(1) ELSE R(-1)]
  ELSE IF parametrization = ArcLength THEN
    [dP_dV |-> LET d == VSub(r_(Take(Angle(V), pvpq), Take(Mag(V), pq)),
                             r_(Take(Angle(Vprv), pvpq), Take(Mag(Vprv), pq)))
               IN [k \in 1 .. Len(d) |-> RMul(R(2), d[k])],
     dP_dlam |-> IF REq(lam, lamprv) THEN R(1) ELSE RMul(R(2), RSub(lam, lamprv))]
  ELSE IF parametrization = PseudoArcLength THEN
    [dP_dV |-> Take(z, r_(r_(pv, pq), [k \in 1 .. Len(pq) |-> nb + pq[k]])),
     dP_dlam |-> z[2 * nb]]
  ELSE
    [dP_dV |-> Take(z, r_(r_(pv, pq), [k \in 1 .. Len(pq) |-> nb + pq[k]])),
     dP_dlam |-> z[2 * nb]]

\* ------------------------------------------------------------ driver state
VARIABLES
  \* arguments of continuation_nr (step, approximation_order, adapt_step, pv
  \* and pq are reassigned by the driver)
  step, approximation_order, adapt_step, step_min, step_max, error_tol, tol,
  max_it, stop_at, controlQ, call_back_fx, original_bus_types, pv, pq,
  \* locals of continuation_nr
  lam, lam_prev, V, V_prev, continuation, cont_steps, normF, success, pvpq,
  bus_types, Sbus, z, voltage_series, lambda_series, V0, lam0,
  \* locals of the running corrector call (cmis is norm(mismatch, Inf))
  cV, clam, i, converged, cnormF, cmis, P, dP_dV, dP_dlam,
  \* control position, exception leaving continuation_nr, log of the calls
  \* made and of the overshoot clamps
  pc, exc, log,
  \* make_otdf_max: its arguments, nj, the result under construction and, for
  \* each iteration j of the loop over the buses, the number of (k, l) pairs
  \* it has finished, whether it is between the comparison and the write, and
  \* its val
  ptdf, lodf, nj, otdf, kl, writing, val

vars == <<step, approximation_order, adapt_step, step_min, step_max, error_tol, tol,
          max_it, stop_at, controlQ, call_back_fx, original_bus_types, pv, pq,
          lam, lam_prev, V, V_prev, continuation, cont_steps, normF, success, pvpq,
          bus_types, Sbus, z, voltage_series, lambda_series, V0, lam0,
          cV, clam, i, converged, cnormF, cmis, P, dP_dV, dP_dlam, pc, exc, log,
          ptdf, lodf, nj, otdf, kl, writing, val>>

otdfVars == <<ptdf, lodf, nj, otdf, kl, writing, val>>

\* continuation_nr does not call make_otdf_max
NoOtdfCall ==
  /\ ptdf = <<>> /\ lodf = <<>> /\ nj = 0 /\ otdf = <<>>
  /\ kl = <<>> /\ writing = <<>> /\ val = <<>>

params == <<step_min, step_max, error_tol, tol, max_it, stop_at, controlQ,
            call_back_fx, original_bus_types>>

corrLocals == <<cV, clam, i, converged, cnormF, cmis, P, dP_dV, dP_dlam>>

\* bus types of the base case: bus 0 slack, bus 1 PV, bus 2 PQ
BaseTypes == [b \in Bus |-> IF b = 0 THEN "vd" ELSE IF b = 1 THEN "pv" ELSE "pq"]

\* base-case voltages: flat magnitudes 2, angles 0
VBase == [b \in Bus |-> [m |-> R(2), a |-> R(0)]]

\* np.where(types == t): the buses of type t in ascending order
RECURSIVE WhereFrom(_, _, _)
WhereFrom(types, t, b) ==
  IF b >= nb THEN <<>>
  ELSE (IF types[b] = t THEN <<b>> ELSE <<>>) \o WhereFrom(types, t, b + 1)

Where(types, t) == WhereFrom(types, t, 0)

\* the (step, step_min, step_max) triples a trace is started with
StepConfigs ==
  { [s |-> R(1), lo |-> Q(1, 2), hi |-> R(2)],
    [s |-> R(6), lo |-> Q(1, 2), hi |-> R(2)] }

TolValues == {Q(1, 2)}

ErrorTolValues == {Q(1, 2)}

StopAtValues == VCStopAt \cup {"Other"}

\* the Sbus_base argument of continuation_nr, and the two values of its local
\* Sbus: not assigned yet, or Scalc.real + 1j * Qnew of line 631
Sbus_base == "Sbus_base"

SbusUnbound == "unbound"

SbusRederived == "Scalc.real + 1j * Qnew"

\* one entry of the call log: the function called in continuation step k and
\* the step, parametrization, point (v, l) and previous point (vp, lp) it got;
\* pv, pq and Sbus are the driver's values at the call, Sbus_arg is the Sbus
\* argument the driver gives the corrector (line 583)
LogEntry(fn, v, l, vp, lp) ==
  [fn |-> fn, k |-> cont_steps, step |-> step, par |-> approximation_order,
   V |-> v, lam |-> l, Vprv |-> vp, lamprv |-> lp,
   pv |-> pv, pq |-> pq, Sbus |-> Sbus, Sbus_arg |-> Sbus_base]

Init ==
  /\ \E c \in StepConfigs : step = c.s /\ step_min = c.lo /\ step_max = c.hi
  /\ approximation_order \in VCParametrization
  /\ adapt_step \in BOOLEAN
  /\ error_tol \in ErrorTolValues
  /\ tol \in TolValues
  /\ max_it = MaxIt
  /\ stop_at \in StopAtValues
  /\ controlQ \in (IF step = R(1) /\ adapt_step THEN {NoControl, Direct} ELSE {NoControl})
  /\ call_back_fx \in (IF controlQ = Direct THEN {TRUE} ELSE BOOLEAN)
  /\ original_bus_types = BaseTypes
  /\ pv = Where(BaseTypes, "pv")
  /\ pq = Where(BaseTypes, "pq")
  /\ lam = R(0)
  /\ lam_prev = R(0)
  /\ V = VBase
  /\ V_prev = VBase
  /\ continuation = TRUE
  /\ cont_steps = 0
  /\ normF = R(0)
  /\ success = FALSE
  /\ pvpq = r_(Where(BaseTypes, "pv"), Where(BaseTypes, "pq"))
  /\ bus_types = BaseTypes
  /\ Sbus = SbusUnbound
  /\ z = [k \in 0 .. 2 * nb |-> IF k = 2 * nb THEN R(1) ELSE R(0)]
  /\ voltage_series = <<>>
  /\ lambda_series = <<>>
  /\ V0 = VBase
  /\ lam0 = R(0)
  /\ cV = VBase
  /\ clam = R(0)
  /\ i = 0
  /\ converged = FALSE
  /\ cnormF = R(0)
  /\ cmis = NaN
  /\ P = R(0)
  /\ dP_dV = <<>>
  /\ dP_dlam = R(0)
  /\ pc = "while"
  /\ exc = "none"
  /\ log = <<>>
  /\ NoOtdfCall

\* ------------------------------------------------------- external solver
\* What spsolve can do with the augmented Jacobian: return a solution, return
\* an all-NaN vector (singular matrix, reported by a warning), or raise (the
\* warning turned into an error, or a failure inside the factorization).  The
\* solutions are drawn from the direction sets below, the NaN vector is
\* NaNVec, and raising is the first disjunct of Predict and NewtonIteration.

\* directions (angle, magnitude, lambda) of the solutions the solver returns
TangentDirs ==
  { [a |-> R(0), m |-> R(0), l |-> R(1)],
    [a |-> R(0), m |-> R(0), l |-> R(-2)],
    [a |-> R(0), m |-> R(-1), l |-> R(0)] }

NewtonDirs ==
  { [a |-> R(0), m |-> R(-1), l |-> Q(1, 4)],
    [a |-> R(0), m |-> R(0), l |-> Q(1, 4)] }

\* a solution vector over the unknowns [Va(pv), Va(pq), Vm(pq), lam]
SolveVec(npv, npq, c) ==
  [k \in 1 .. (npv + 2 * npq + 1) |->
     IF k <= npv + npq THEN c.a ELSE IF k <= npv + 2 * npq THEN c.m ELSE c.l]

NaNVec(n) == [k \in 1 .. n |-> NaN]

\* infinity-norms the power mismatch [Re at pvpq, Im at pq] can take
MismatchNorms == {R(0), R(4)}

\* ------------------------------------------------------------ polar helpers
IsSquare(n) == \E r \in 0 .. n : r * r = n

ISqrt(n) == CHOOSE r \in 0 .. n : r * r = n

HasSqrt(x) == ~IsNaN(x) /\ x[1] >= 0 /\ IsSquare(x[1]) /\ IsSquare(x[2])

RSqrt(x) == IF IsNaN(x) THEN NaN ELSE Q(ISqrt(x[1]), ISqrt(x[2]))

\* position of bus b in the index array idx (0 when absent)
RECURSIVE PosFrom(_, _, _)
PosFrom(idx, b, k) ==
  IF k > Len(idx) THEN 0 ELSE IF idx[k] = b THEN k ELSE PosFrom(idx, b, k + 1)

Pos(idx, b) == PosFrom(idx, b, 1)

\* Vm * exp(1j * Va) followed by abs and angle: a NaN in either part makes
\* the complex number, and so both parts, NaN
Polar(Vm, Va) ==
  [b \in Bus |-> IF IsNaN(Vm[b]) \/ IsNaN(Va[b]) THEN [m |-> NaN, a |-> NaN]
                 ELSE [m |-> Vm[b], a |-> Va[b]]]

AnyNaN(v) == \E b \in Bus : IsNaN(v[b].m) \/ IsNaN(v[b].a)

\* the bounded voltages: positive magnitude and an angle inside (-pi, pi)
InDomain(v) ==
  \A b \in Bus : IsNaN(v[b].m) \/ (RGt(v[b].m, R(0)) /\ RLe(RAbs(v[b].a), R(3)))

\* the bounded loading parameters
LamInDomain(l) == IsNaN(l) \/ RLe(RAbs(l), R(LamMax))

\* ---------------------------------------------------------------- predictor
\* z[r_[pvpq, nb + pq, 2 * nb]] = sol
PredZAssign(zz, sol, ppv, ppq) ==
  LET idx == r_(r_(r_(ppv, ppq), [k \in 1 .. Len(ppq) |-> nb + ppq[k]]), <<2 * nb>>)
  IN [k \in 0 .. 2 * nb |-> IF Pos(idx, k) > 0 THEN sol[Pos(idx, k)] ELSE zz[k]]

ZSeq(zz) == [k \in 1 .. 2 * nb + 1 |-> zz[k - 1]]

\* z /= linalg.norm(z)
PredZNormalize(zz) ==
  LET n == RSqrt(SumSq(ZSeq(zz))) IN [k \in 0 .. 2 * nb |-> RDiv(zz[k], n)]

\* Va0[pvpq] = Va_prev[pvpq] + step * z[pvpq]; Vm0[pq] = Vm_prev[pq] + step * z[pq + nb]
PredV0(v, st, zz, ppv, ppq) ==
  LET ppvpq == r_(ppv, ppq)
      Va0 == [b \in Bus |-> IF Pos(ppvpq, b) > 0 THEN RAdd(v[b].a, RMul(st, zz[b])) ELSE v[b].a]
      Vm0 == [b \in Bus |-> IF Pos(ppq, b) > 0 THEN RAdd(v[b].m, RMul(st, zz[b + nb])) ELSE v[b].m]
  IN Polar(Vm0, Va0)

PredLam0(l, st, zz) == RAdd(l, RMul(st, zz[2 * nb]))

\* ---------------------------------------------------------------- corrector
\* F = r_[mismatch[pvpq].real, mismatch[pq].imag, P]; normF = norm(F, Inf)
CorrNormF(mis, v, l) ==
  LET p == cpf_p(approximation_order, step, z, v, l, V_prev, lam_prev, pv, pq, r_(pv, pq))
  IN RMax(IF AnyNaN(v) \/ IsNaN(l) THEN NaN ELSE mis, RAbs(p))

\* norm(mismatch, Inf) at the point (v, l): Scalc - Sbus - lam * Sxfr is a
\* function of the point (Ybus, Sbus_base and Sxfr are the same in every call),
\* so the point evaluated last gets the value it got
MismatchAt(v, l) ==
  IF v = cV /\ l = clam /\ ~IsNaN(cmis) THEN {cmis} ELSE MismatchNorms

\* the mismatch norm kept for the point (v, l)
CorrMis(mis, v, l) == IF AnyNaN(v) \/ IsNaN(l) THEN NaN ELSE mis

\* Va[pvpq] += dx[j1:j2] (if npv); Vm[pq] += dx[j2:j3] (if npq); V = Vm * exp(1j * Va)
CorrUpdateV(v, dx, ppv, ppq) ==
  LET npv == Len(ppv)
      npq == Len(ppq)
      ppvpq == r_(ppv, ppq)
      Va == [b \in Bus |-> IF npv # 0 /\ Pos(ppvpq, b) > 0
                           THEN RAdd(v[b].a, dx[Pos(ppvpq, b)]) ELSE v[b].a]
      Vm == [b \in Bus |-> IF npq # 0 /\ Pos(ppq, b) > 0
                           THEN RAdd(v[b].m, dx[npv + npq + Pos(ppq, b)]) ELSE v[b].m]
  IN Polar(Vm, Va)

\* lam += dx[j3]
CorrUpdateLam(l, dx, ppv, ppq) == RAdd(l, dx[Len(ppv) + 2 * Len(ppq) + 1])

\* ------------------------------------------------------------------ driver
\* abs(lam) < 1e-8
LamZeroTol == Q(1, 100000000)

\* lines 549-551: pvpq_lookup = zeros(...); pvpq_lookup[pvpq] = arange(len(pvpq))
PvpqLookup(ppvpq) == [b \in Bus |-> IF Pos(ppvpq, b) > 0 THEN Pos(ppvpq, b) - 1 ELSE 0]

\* the lookup the driver passes to every predictor and corrector call: built
\* once from the pvpq of line 543; neither name is assigned again
pvpq_lookup == PvpqLookup(pvpq)

\* while continuation: cont_steps += 1
While ==
  /\ pc = "while"
  /\ IF continuation
     THEN /\ cont_steps < MaxContSteps
          /\ cont_steps' = cont_steps + 1
          /\ pc' = "predict"
     ELSE /\ pc' = "done"
          /\ UNCHANGED cont_steps
  /\ UNCHANGED <<otdfVars, params, step, approximation_order, adapt_step, pv, pq, lam, lam_prev, V,
                 V_prev, continuation, normF, success, pvpq, bus_types, Sbus, z,
                 voltage_series, lambda_series, V0, lam0, corrLocals, exc, log>>

\* Predict without lines 577-578: the previous point is never saved
Predict_NoSave ==
  /\ pc = "predict"
  /\ log' = Append(log, LogEntry("predictor", V, lam, V_prev, lam_prev))
  /\ \/ /\ exc' = "solve"
        /\ pc' = "raised"
        /\ UNCHANGED <<z, V0, lam0, V_prev, lam_prev>>
     \/ /\ \E sol \in {SolveVec(Len(pv), Len(pq), c) : c \in TangentDirs}
                      \cup {NaNVec(Len(pv) + 2 * Len(pq) + 1)} :
             LET za == PredZAssign(z, sol, pv, pq)
             IN /\ IsNaN(SumSq(ZSeq(za))) \/ HasSqrt(SumSq(ZSeq(za)))
                /\ z' = PredZNormalize(za)
                /\ V0' = PredV0(V, step, z', pv, pq)
                /\ lam0' = PredLam0(lam, step, z')
                /\ InDomain(V0') /\ LamInDomain(lam0')
        /\ UNCHANGED <<V_prev, lam_prev>>
        /\ pc' = "corrector"
        /\ UNCHANGED exc
  /\ UNCHANGED <<otdfVars, params, step, approximation_order, adapt_step, pv, pq, lam, V,
                 continuation, cont_steps, normF, success, pvpq, bus_types, Sbus,
                 voltage_series, lambda_series, corrLocals>>

\* V0, lam0, z = predictor(...); V_prev = V.copy(); lam_prev = lam
Predict ==
  /\ pc = "predict"
  /\ log' = Append(log, LogEntry("predictor", V, lam, V_prev, lam_prev))
  /\ \/ /\ exc' = "solve"
        /\ pc' = "raised"
        /\ UNCHANGED <<z, V0, lam0, V_prev, lam_prev>>
     \/ /\ \E sol \in {SolveVec(Len(pv), Len(pq), c) : c \in TangentDirs}
                      \cup {NaNVec(Len(pv) + 2 * Len(pq) + 1)} :
             LET za == PredZAssign(z, sol, pv, pq)
             IN /\ IsNaN(SumSq(ZSeq(za))) \/ HasSqrt(SumSq(ZSeq(za)))
                /\ z' = PredZNormalize(za)
                /\ V0' = PredV0(V, step, z', pv, pq)
                /\ lam0' = PredLam0(lam, step, z')
                /\ InDomain(V0') /\ LamInDomain(lam0')
        /\ V_prev' = V
        /\ lam_prev' = lam
        /\ pc' = "corrector"
        /\ UNCHANGED exc
  /\ UNCHANGED <<otdfVars, params, step, approximation_order, adapt_step, pv, pq, lam, V,
                 continuation, cont_steps, normF, success, pvpq, bus_types, Sbus,
                 voltage_series, lambda_series, corrLocals>>

\* CorrectorStart without the convergence test of lines 322-323
CorrectorStart_NoInitialCheck ==
  /\ pc = "corrector"
  /\ log' = Append(log, LogEntry("corrector", V0, lam0, V_prev, lam_prev))
  /\ i' = 0
  /\ cV' = V0
  /\ clam' = lam0
  /\ \E mis \in MismatchAt(V0, lam0) :
        /\ cmis' = CorrMis(mis, V0, lam0)
        /\ cnormF' = CorrNormF(mis, V0, lam0)
  /\ P' = cpf_p(approximation_order, step, z, V0, lam0, V_prev, lam_prev, pv, pq, r_(pv, pq))
  /\ converged' = FALSE
  /\ pc' = "newton"
  /\ UNCHANGED <<dP_dV, dP_dlam>>
  /\ UNCHANGED <<otdfVars, params, step, approximation_order, adapt_step, pv, pq, lam, lam_prev, V,
                 V_prev, continuation, cont_steps, normF, success, pvpq, bus_types, Sbus, z,
                 voltage_series, lambda_series, V0, lam0, exc>>

\* corrector, lines 288-325: initialize and evaluate F(x0, lam0)
CorrectorStart ==
  /\ pc = "corrector"
  /\ log' = Append(log, LogEntry("corrector", V0, lam0, V_prev, lam_prev))
  /\ i' = 0
  /\ cV' = V0
  /\ clam' = lam0
  /\ \E mis \in MismatchAt(V0, lam0) :
        /\ cmis' = CorrMis(mis, V0, lam0)
        /\ cnormF' = CorrNormF(mis, V0, lam0)
  /\ P' = cpf_p(approximation_order, step, z, V0, lam0, V_prev, lam_prev, pv, pq, r_(pv, pq))
  /\ converged' = RLt(cnormF', tol)
  /\ pc' = "newton"
  /\ UNCHANGED <<dP_dV, dP_dlam>>
  /\ UNCHANGED <<otdfVars, params, step, approximation_order, adapt_step, pv, pq, lam, lam_prev, V,
                 V_prev, continuation, cont_steps, normF, success, pvpq, bus_types, Sbus, z,
                 voltage_series, lambda_series, V0, lam0, exc>>

\* corrector, lines 328-388: one Newton iteration
NewtonIteration ==
  /\ pc = "newton"
  /\ ~converged /\ i < max_it
  /\ i' = i + 1
  /\ LET jac == cpf_p_jac(approximation_order, z, cV, clam, V_prev, lam_prev, pv, pq, r_(pv, pq))
     IN dP_dV' = jac.dP_dV /\ dP_dlam' = jac.dP_dlam
  /\ \/ /\ exc' = "solve"
        /\ pc' = "raised"
        /\ UNCHANGED <<cV, clam, cnormF, converged, cmis, P>>
     \/ /\ \E dx \in (IF AnyNaN(cV) \/ IsNaN(clam) THEN {}
                      ELSE {SolveVec(Len(pv), Len(pq), c) : c \in NewtonDirs})
                     \cup {NaNVec(Len(pv) + 2 * Len(pq) + 1)} :
             /\ cV' = CorrUpdateV(cV, dx, pv, pq)
             /\ clam' = CorrUpdateLam(clam, dx, pv, pq)
             /\ InDomain(cV') /\ LamInDomain(clam')
        /\ \E mis \in MismatchAt(cV', clam') :
              /\ cmis' = CorrMis(mis, cV', clam')
              /\ cnormF' = CorrNormF(mis, cV', clam')
        /\ P' = cpf_p(approximation_order, step, z, cV', clam', V_prev, lam_prev, pv, pq, r_(pv, pq))
        /\ converged' = RLt(cnormF', tol)
        /\ pc' = "newton"
        /\ UNCHANGED exc
  /\ UNCHANGED <<otdfVars, params, step, approximation_order, adapt_step, pv, pq, lam, lam_prev, V,
                 V_prev, continuation, cont_steps, normF, success, pvpq, bus_types, Sbus, z,
                 voltage_series, lambda_series, V0, lam0, log>>

\* CorrectorReturn for a loop that gives up one iteration early
\* (while not converged and i < max_it - 1)
CorrectorReturn_EarlyExit ==
  /\ pc = "newton"
  /\ converged \/ i >= max_it - 1
  /\ V' = cV
  /\ success' = converged
  /\ lam' = clam
  /\ normF' = cnormF
  /\ pc' = "record"
  /\ UNCHANGED <<otdfVars, params, step, approximation_order, adapt_step, pv, pq, lam_prev,
                 V_prev, continuation, cont_steps, pvpq, bus_types, Sbus, z,
                 voltage_series, lambda_series, V0, lam0, corrLocals, exc, log>>

\* CorrectorReturn whose caller drops the returned normF
CorrectorReturn_StaleNorm ==
  /\ pc = "newton"
  /\ converged \/ i >= max_it
  /\ V' = cV
  /\ success' = converged
  /\ lam' = clam
  /\ pc' = "record"
  /\ UNCHANGED <<otdfVars, params, step, approximation_order, adapt_step, pv, pq, lam_prev,
                 V_prev, continuation, cont_steps, normF, pvpq, bus_types, Sbus, z,
                 voltage_series, lambda_series, V0, lam0, corrLocals, exc, log>>

\* return V, converged, i, lam, normF, Scalc: the driver's tuple assignment
CorrectorReturn ==
  /\ pc = "newton"
  /\ converged \/ i >= max_it
  /\ V' = cV
  /\ success' = converged
  /\ lam' = clam
  /\ normF' = cnormF
  /\ pc' = "record"
  /\ UNCHANGED <<otdfVars, params, step, approximation_order, adapt_step, pv, pq, lam_prev,
                 V_prev, continuation, cont_steps, pvpq, bus_types, Sbus, z,
                 voltage_series, lambda_series, V0, lam0, corrLocals, exc, log>>

\* Record with the two appends moved inside "if success"
Record_SkipFailed ==
  /\ pc = "record"
  /\ IF success
     THEN /\ voltage_series' = Append(voltage_series, V)
          /\ lambda_series' = Append(lambda_series, lam)
          /\ pc' = "controlq"
          /\ UNCHANGED continuation
     ELSE /\ pc' = "while"
          /\ continuation' = FALSE
          /\ UNCHANGED <<voltage_series, lambda_series>>
  /\ UNCHANGED <<otdfVars, params, step, approximation_order, adapt_step, pv, pq, lam, lam_prev, V,
                 V_prev, cont_steps, normF, success, pvpq, bus_types, Sbus, z,
                 V0, lam0, corrLocals, exc, log>>

\* Record whose else branch does not clear "continuation"
Record_KeepGoing ==
  /\ pc = "record"
  /\ voltage_series' = Append(voltage_series, V)
  /\ lambda_series' = Append(lambda_series, lam)
  /\ pc' = IF success THEN "controlq" ELSE "while"
  /\ UNCHANGED <<otdfVars, params, step, approximation_order, adapt_step, pv, pq, lam, lam_prev, V,
                 V_prev, continuation, cont_steps, normF, success, pvpq, bus_types, Sbus, z,
                 V0, lam0, corrLocals, exc, log>>

\* Record appending the point the step started from
Record_StartPoint ==
  /\ pc = "record"
  /\ voltage_series' = Append(voltage_series, V_prev)
  /\ lambda_series' = Append(lambda_series, lam_prev)
  /\ IF success
     THEN pc' = "controlq" /\ UNCHANGED continuation
     ELSE pc' = "while" /\ continuation' = FALSE
  /\ UNCHANGED <<otdfVars, params, step, approximation_order, adapt_step, pv, pq, lam, lam_prev, V,
                 V_prev, cont_steps, normF, success, pvpq, bus_types, Sbus, z,
                 V0, lam0, corrLocals, exc, log>>

\* voltage_series.append(V); lambda_series.append(lam); if success: ... else: ...
Record ==
  /\ pc = "record"
  /\ voltage_series' = Append(voltage_series, V)
  /\ lambda_series' = Append(lambda_series, lam)
  /\ IF success
     THEN pc' = "controlq" /\ UNCHANGED continuation
     ELSE pc' = "while" /\ continuation' = FALSE
  /\ UNCHANGED <<otdfVars, params, step, approximation_order, adapt_step, pv, pq, lam, lam_prev, V,
                 V_prev, cont_steps, normF, success, pvpq, bus_types, Sbus, z,
                 V0, lam0, corrLocals, exc, log>>

\* ----------------------------------------------------- reactive-limit control
\* control_q_direct: may move a bus that was PV in the base case between PV
\* and PQ; reports whether it changed a type, and returns the voltages, where
\* the bus that gets its voltage control back may have its magnitude put back
\* to the base-case value
ControlQOutcomes(v, types, original_types) ==
  {[V |-> v, types |-> types, changed |-> FALSE]} \cup
  UNION {{[V |-> w,
           types |-> [types EXCEPT ![b] = IF types[b] = "pv" THEN "pq" ELSE "pv"],
           changed |-> TRUE] :
            w \in {v, [v EXCEPT ![b].m = IF types[b] = "pq" THEN VBase[b].m ELSE v[b].m]}} :
         b \in {c \in Bus : original_types[c] = "pv"}}

\* compile_types: the index arrays of each bus type
compile_types(types) == [vd |-> Where(types, "vd"), pq |-> Where(types, "pq"), pv |-> Where(types, "pv")]

\* lines 609-635
ControlQ ==
  /\ pc = "controlq"
  /\ IF controlQ = Direct
     THEN /\ log' = Append(log, LogEntry("control_q_direct", V, lam, V_prev, lam_prev))
          /\ \E res \in ControlQOutcomes(V, bus_types, original_bus_types) :
               /\ V' = res.V
               /\ IF res.changed
                  THEN /\ bus_types' = res.types
                       /\ Sbus' = SbusRederived
                       /\ pv' = compile_types(res.types).pv
                       /\ pq' = compile_types(res.types).pq
                  ELSE UNCHANGED <<bus_types, Sbus, pv, pq>>
     ELSE UNCHANGED <<V, bus_types, Sbus, pv, pq, log>>
  /\ pc' = "stopcheck"
  /\ UNCHANGED <<otdfVars, params, step, approximation_order, adapt_step, lam, lam_prev,
                 V_prev, continuation, cont_steps, normF, success, pvpq, z,
                 voltage_series, lambda_series, V0, lam0, corrLocals, exc>>

\* line 638 with the origin taken to be any lam below 1
FullTraced_BelowOne(l) == RLt(RAbs(l), R(1))

\* line 638 without abs()
FullTraced_NoAbs(l) == RLt(l, LamZeroTol)

\* line 638: abs(lam) < 1e-8
FullTraced(l) == RLt(RAbs(l), LamZeroTol)

\* line 644: (lam < lam_prev) and (lam - step < 0)
Overshoot(l, lp, st) == RLt(l, lp) /\ RLt(RSub(l, st), R(0))

\* line 657 with <= for <
NoseReached_Le(l, lp) == RLe(l, lp)

\* line 657 comparing with the base case instead of the previous point
NoseReached_VsBase(l, lp) == RLt(l, R(0))

\* line 657: lam < lam_prev
NoseReached(l, lp) == RLt(l, lp)

\* StopCheck whose overshoot branch leaves adapt_step on
StopCheck_AdaptLeftOn ==
  /\ pc = "stopcheck"
  /\ IF stop_at = Full
     THEN IF FullTraced(lam)
          THEN /\ continuation' = FALSE
               /\ pc' = "adapt"
               /\ UNCHANGED <<step, approximation_order, adapt_step, exc, log>>
          ELSE IF Overshoot(lam, lam_prev, step)
          THEN /\ step' = lam
               /\ approximation_order' = Natural
               /\ log' = Append(log, LogEntry("overshoot_clamp", V, lam, V_prev, lam_prev))
               /\ pc' = "adapt"
               /\ UNCHANGED <<continuation, adapt_step, exc>>
          ELSE /\ pc' = "adapt"
               /\ UNCHANGED <<continuation, step, approximation_order, adapt_step, exc, log>>
     ELSE IF stop_at = Nose
     THEN /\ continuation' = IF NoseReached(lam, lam_prev) THEN FALSE ELSE continuation
          /\ pc' = "adapt"
          /\ UNCHANGED <<step, approximation_order, adapt_step, exc, log>>
     ELSE /\ exc' = "stop_at"
          /\ pc' = "raised"
          /\ UNCHANGED <<continuation, step, approximation_order, adapt_step, log>>
  /\ UNCHANGED <<otdfVars, params, pv, pq, lam, lam_prev, V, V_prev, cont_steps, normF, success,
                 pvpq, bus_types, Sbus, z, voltage_series, lambda_series, V0, lam0,
                 corrLocals>>

\* lines 637-663 with the clamp leaving the parametrization as it was
StopCheck_KeepScheme ==
  /\ pc = "stopcheck"
  /\ IF stop_at = Full
     THEN IF FullTraced(lam)
          THEN /\ continuation' = FALSE
               /\ pc' = "adapt"
               /\ UNCHANGED <<step, approximation_order, adapt_step, exc, log>>
          ELSE IF Overshoot(lam, lam_prev, step)
          THEN /\ step' = lam
               /\ adapt_step' = FALSE
               /\ log' = Append(log, LogEntry("overshoot_clamp", V, lam, V_prev, lam_prev))
               /\ pc' = "adapt"
               /\ UNCHANGED <<continuation, approximation_order, exc>>
          ELSE /\ pc' = "adapt"
               /\ UNCHANGED <<continuation, step, approximation_order, adapt_step, exc, log>>
     ELSE IF stop_at = Nose
     THEN /\ continuation' = IF NoseReached(lam, lam_prev) THEN FALSE ELSE continuation
          /\ pc' = "adapt"
          /\ UNCHANGED <<step, approximation_order, adapt_step, exc, log>>
     ELSE /\ exc' = "stop_at"
          /\ pc' = "raised"
          /\ UNCHANGED <<continuation, step, approximation_order, adapt_step, log>>
  /\ UNCHANGED <<otdfVars, params, pv, pq, lam, lam_prev, V, V_prev, cont_steps, normF, success,
                 pvpq, bus_types, Sbus, z, voltage_series, lambda_series, V0, lam0,
                 corrLocals>>

\* lines 637-663
StopCheck ==
  /\ pc = "stopcheck"
  /\ IF stop_at = Full
     THEN IF FullTraced(lam)
          THEN /\ continuation' = FALSE
               /\ pc' = "adapt"
               /\ UNCHANGED <<step, approximation_order, adapt_step, exc, log>>
          ELSE IF Overshoot(lam, lam_prev, step)
          THEN /\ step' = lam
               /\ approximation_order' = Natural
               /\ adapt_step' = FALSE
               /\ log' = Append(log, LogEntry("overshoot_clamp", V, lam, V_prev, lam_prev))
               /\ pc' = "adapt"
               /\ UNCHANGED <<continuation, exc>>
          ELSE /\ pc' = "adapt"
               /\ UNCHANGED <<continuation, step, approximation_order, adapt_step, exc, log>>
     ELSE IF stop_at = Nose
     THEN /\ continuation' = IF NoseReached(lam, lam_prev) THEN FALSE ELSE continuation
          /\ pc' = "adapt"
          /\ UNCHANGED <<step, approximation_order, adapt_step, exc, log>>
     ELSE /\ exc' = "stop_at"
          /\ pc' = "raised"
          /\ UNCHANGED <<continuation, step, approximation_order, adapt_step, log>>
  /\ UNCHANGED <<otdfVars, params, pv, pq, lam, lam_prev, V, V_prev, cont_steps, normF, success,
                 pvpq, bus_types, Sbus, z, voltage_series, lambda_series, V0, lam0,
                 corrLocals>>

\* fx = r_[angle(V[pq]), abs(V[pvpq]), lam] - r_[angle(V0[pq]), abs(V0[pvpq]), lam0]
\* cpf_error = norm(fx, Inf)
CpfError(v, l, v0, l0, ppq, ppvpq) ==
  NormInf(VSub(r_(r_(Take(Angle(v), ppq), Take(Mag(v), ppvpq)), <<l>>),
               r_(r_(Take(Angle(v0), ppq), Take(Mag(v0), ppvpq)), <<l0>>)))

\* step * error_tol / cpf_error, with cpf_error == 0 replaced by 1e-20.  The
\* quotient by 1e-20 is kept as [big |-> TRUE, v |-> step * error_tol]: it
\* stands for v * 1e20, which lies beyond every nonzero rational of the model.
ScaledStep(st, etol, err) ==
  IF REq(err, R(0)) THEN [big |-> TRUE, v |-> RMul(st, etol)]
  ELSE [big |-> FALSE, v |-> RDiv(RMul(st, etol), err)]

XGt(x, m) == IF x.big THEN RGt(x.v, R(0)) ELSE RGt(x.v, m)

XLt(x, m) == IF x.big THEN RLt(x.v, R(0)) ELSE RLt(x.v, m)

XVal(x) == IF x.big /\ x.v # R(0) THEN "beyond the modelled range" ELSE x.v

\* cpf_error < error_tol, with cpf_error == 0 replaced by 1e-20
ErrBelowTol(err, etol) == IF REq(err, R(0)) THEN RGt(etol, R(0)) ELSE RLt(err, etol)

\* lines 671-684 with the quotient inverted (step * cpf_error / error_tol)
AdaptStep_Inverted(st, etol, err, smin, smax) ==
  LET s == [big |-> FALSE, v |-> RDiv(RMul(st, err), etol)]
  IN IF ErrBelowTol(err, etol)
     THEN IF XGt(s, smax) THEN smax ELSE XVal(s)
     ELSE IF XLt(s, smin) THEN smin ELSE XVal(s)

\* lines 671-684 without "if cpf_error == 0: cpf_error = 1e-20"
AdaptStep_NoFloor(st, etol, err, smin, smax) ==
  LET s == RDiv(RMul(st, etol), err)
  IN IF RLt(err, etol)
     THEN IF RGt(s, smax) THEN smax ELSE s
     ELSE IF RLt(s, smin) THEN smin ELSE s

\* lines 671-684 with the "if step > step_max" clamp applied only to the
\* floored error
AdaptStep_NoUpperClamp(st, etol, err, smin, smax) ==
  LET s == ScaledStep(st, etol, err)
  IN IF ErrBelowTol(err, etol)
     THEN IF s.big /\ XGt(s, smax) THEN smax ELSE XVal(s)
     ELSE IF XLt(s, smin) THEN smin ELSE XVal(s)

\* lines 671-684: the new step
AdaptStep(st, etol, err, smin, smax) ==
  LET s == ScaledStep(st, etol, err)
  IN IF ErrBelowTol(err, etol)
     THEN IF XGt(s, smax) THEN smax ELSE XVal(s)
     ELSE IF XLt(s, smin) THEN smin ELSE XVal(s)

\* lines 665-684 entered whether or not a stop condition fired
Adapt_IgnoresStop ==
  /\ pc = "adapt"
  /\ IF adapt_step
     THEN /\ step' = AdaptStep(step, error_tol, CpfError(V, lam, V0, lam0, pq, pvpq),
                               step_min, step_max)
          /\ log' = Append(log, LogEntry("adapt", V, lam, V_prev, lam_prev))
     ELSE UNCHANGED <<step, log>>
  /\ pc' = "callback"
  /\ UNCHANGED <<otdfVars, params, approximation_order, adapt_step, pv, pq, lam, lam_prev, V,
                 V_prev, continuation, cont_steps, normF, success, pvpq, bus_types, Sbus, z,
                 voltage_series, lambda_series, V0, lam0, corrLocals, exc>>

\* lines 665-684
Adapt ==
  /\ pc = "adapt"
  /\ IF adapt_step /\ continuation
     THEN /\ step' = AdaptStep(step, error_tol, CpfError(V, lam, V0, lam0, pq, pvpq),
                               step_min, step_max)
          /\ log' = Append(log, LogEntry("adapt", V, lam, V_prev, lam_prev))
     ELSE UNCHANGED <<step, log>>
  /\ pc' = "callback"
  /\ UNCHANGED <<otdfVars, params, approximation_order, adapt_step, pv, pq, lam, lam_prev, V,
                 V_prev, continuation, cont_steps, normF, success, pvpq, bus_types, Sbus, z,
                 voltage_series, lambda_series, V0, lam0, corrLocals, exc>>

\* Callback given the lambda the step started from
Callback_PrevLambda ==
  /\ pc = "callback"
  /\ IF call_back_fx
     THEN log' = Append(log, LogEntry("call_back_fx", V, lam_prev, V_prev, lam_prev))
     ELSE UNCHANGED log
  /\ pc' = "while"
  /\ UNCHANGED <<otdfVars, params, step, approximation_order, adapt_step, pv, pq, lam, lam_prev, V,
                 V_prev, continuation, cont_steps, normF, success, pvpq, bus_types, Sbus, z,
                 voltage_series, lambda_series, V0, lam0, corrLocals, exc>>

\* lines 686-688
Callback ==
  /\ pc = "callback"
  /\ IF call_back_fx
     THEN log' = Append(log, LogEntry("call_back_fx", V, lam, V_prev, lam_prev))
     ELSE UNCHANGED log
  /\ pc' = "while"
  /\ UNCHANGED <<otdfVars, params, step, approximation_order, adapt_step, pv, pq, lam, lam_prev, V,
                 V_prev, continuation, cont_steps, normF, success, pvpq, bus_types, Sbus, z,
                 voltage_series, lambda_series, V0, lam0, corrLocals, exc>>

Next ==
  \/ While
  \/ Predict
  \/ CorrectorStart
  \/ NewtonIteration
  \/ CorrectorReturn
  \/ Record
  \/ ControlQ
  \/ StopCheck
  \/ Adapt
  \/ Callback

Spec == Init /\ [][Next]_vars

\* ------------------------------------- the parametrization functions alone
\* values held by the variables a specification does not exercise
FixedParams ==
  /\ adapt_step = FALSE
  /\ step_min = Q(1, 2) /\ step_max = R(2)
  /\ error_tol \in ErrorTolValues
  /\ tol \in TolValues
  /\ max_it = MaxIt
  /\ stop_at = Nose
  /\ controlQ = NoControl
  /\ call_back_fx = FALSE
  /\ original_bus_types = BaseTypes

FreshDriver ==
  /\ continuation = TRUE
  /\ normF = R(0)
  /\ success = FALSE
  /\ bus_types = BaseTypes
  /\ Sbus = SbusUnbound
  /\ voltage_series = <<>>
  /\ lambda_series = <<>>
  /\ exc = "none"
  /\ log = <<>>

FreshCorrector ==
  /\ cV = VBase /\ clam = R(0) /\ i = 0 /\ converged = FALSE /\ cnormF = R(0)
  /\ cmis = NaN /\ P = R(0) /\ dP_dV = <<>> /\ dP_dlam = R(0)

\* the arguments the parametrization functions are called with
ParamValues == VCParametrization \cup {"Other"}

StepValues == {R(0), Q(1, 2), R(1), R(2)}

Partitions == {[pv |-> <<1>>, pq |-> <<2>>], [pv |-> <<>>, pq |-> <<1, 2>>]}

PointValues ==
  {[b \in Bus |-> IF b = 1 THEN [m |-> R(2), a |-> a1]
                  ELSE IF b = 2 THEN [m |-> m2, a |-> R(0)] ELSE VBase[b]] :
     a1 \in {R(-1), R(0), R(1)}, m2 \in {R(1), R(2), R(3)}}

LamValues == {R(0), R(1), R(2)}

LamPrevValues == {R(0), R(1)}

TangentValues ==
  {[k \in 0 .. 2 * nb |-> IF k = 2 * nb THEN R(1) ELSE R(0)],
   [k \in 0 .. 2 * nb |-> IF k = 2 THEN R(1) ELSE IF k = nb + 2 THEN R(2)
                          ELSE IF k = 2 * nb THEN R(-1) ELSE R(0)]}

InitP ==
  /\ FixedParams /\ FreshDriver /\ FreshCorrector
  /\ approximation_order \in ParamValues
  /\ step \in StepValues
  /\ \E part \in Partitions :
       pv = part.pv /\ pq = part.pq /\ pvpq = r_(part.pv, part.pq)
  /\ V \in PointValues
  /\ V_prev = VBase
  /\ lam \in LamValues
  /\ lam_prev \in LamPrevValues
  /\ z \in TangentValues
  /\ V0 = VBase /\ lam0 = R(0)
  /\ cont_steps = 0
  /\ pc = "cpf_p"
  /\ NoOtdfCall

\* P = cpf_p(parametrization, step, z, V, lam, Vprv, lamprv, pv, pq, pvpq)
Call_cpf_p ==
  /\ pc = "cpf_p"
  /\ P' = cpf_p(approximation_order, step, z, V, lam, V_prev, lam_prev, pv, pq, pvpq)
  /\ pc' = "cpf_p_jac"
  /\ UNCHANGED <<otdfVars, params, step, approximation_order, adapt_step, pv, pq, lam, lam_prev, V,
                 V_prev, continuation, cont_steps, normF, success, pvpq, bus_types, Sbus, z,
                 voltage_series, lambda_series, V0, lam0, cV, clam, i, converged,
                 cnormF, cmis, dP_dV, dP_dlam, exc, log>>

\* dP_dV, dP_dlam = cpf_p_jac(parametrization, z, V, lam, Vprv, lamprv, pv, pq, pvpq)
Call_cpf_p_jac ==
  /\ pc = "cpf_p_jac"
  /\ LET jac == cpf_p_jac(approximation_order, z, V, lam, V_prev, lam_prev, pv, pq, pvpq)
     IN dP_dV' = jac.dP_dV /\ dP_dlam' = jac.dP_dlam
  /\ pc' = "evaluated"
  /\ UNCHANGED <<otdfVars, params, step, approximation_order, adapt_step, pv, pq, lam, lam_prev, V,
                 V_prev, continuation, cont_steps, normF, success, pvpq, bus_types, Sbus, z,
                 voltage_series, lambda_series, V0, lam0, cV, clam, i, converged,
                 cnormF, cmis, P, exc, log>>

NextP == Call_cpf_p \/ Call_cpf_p_jac

SpecP == InitP /\ [][NextP]_vars

\* --------------------------------------- the corrector called on its output
Guesses ==
  {[b \in Bus |-> IF b = 2 THEN [m |-> m2, a |-> R(0)] ELSE VBase[b]] : m2 \in {R(2), R(3)}}

GuessLams == {Q(1, 2), Q(3, 4), R(1), Q(3, 2)}

InitIdem ==
  /\ FixedParams /\ FreshDriver /\ FreshCorrector
  /\ approximation_order \in VCParametrization
  /\ step = R(1)
  /\ pv = Where(BaseTypes, "pv")
  /\ pq = Where(BaseTypes, "pq")
  /\ pvpq = r_(Where(BaseTypes, "pv"), Where(BaseTypes, "pq"))
  /\ V = VBase /\ V_prev = VBase
  /\ lam_prev \in LamPrevValues /\ lam = lam_prev
  /\ z \in TangentValues
  /\ V0 \in Guesses
  /\ lam0 \in GuessLams
  /\ cont_steps = 1
  /\ pc = "corrector"
  /\ NoOtdfCall

\* corrector(V0=V, lam0=lam, ...) with every other argument as in the first call
CallAgain ==
  /\ pc = "record"
  /\ success
  /\ Len(SelectSeq(log, LAMBDA e : e.fn = "corrector")) = 1
  /\ V0' = V
  /\ lam0' = lam
  /\ pc' = "corrector"
  /\ UNCHANGED <<otdfVars, params, step, approximation_order, adapt_step, pv, pq, lam, lam_prev, V,
                 V_prev, continuation, cont_steps, normF, success, pvpq, bus_types, Sbus, z,
                 voltage_series, lambda_series, corrLocals, exc, log>>

NextIdem == CorrectorStart \/ NewtonIteration \/ CorrectorReturn \/ CallAgain

SpecIdem == InitIdem /\ [][NextIdem]_vars

\* ------------------------------- traces with the reactive-limit control on
\* a base case whose PV bus has a higher index than its PQ bus
QBaseTypes == [b \in Bus |-> IF b = 0 THEN "vd" ELSE IF b = 1 THEN "pq" ELSE "pv"]

InitQ ==
  /\ step = R(1) /\ step_min = Q(1, 2) /\ step_max = R(2)
  /\ approximation_order \in VCParametrization
  /\ adapt_step = FALSE
  /\ error_tol \in ErrorTolValues
  /\ tol \in TolValues
  /\ max_it = MaxIt
  /\ stop_at = Nose
  /\ controlQ = Direct
  /\ call_back_fx = FALSE
  /\ original_bus_types = QBaseTypes
  /\ pv = Where(QBaseTypes, "pv")
  /\ pq = Where(QBaseTypes, "pq")
  /\ lam = R(0)
  /\ lam_prev = R(0)
  /\ V = VBase
  /\ V_prev = VBase
  /\ continuation = TRUE
  /\ cont_steps = 0
  /\ normF = R(0)
  /\ success = FALSE
  /\ pvpq = r_(Where(QBaseTypes, "pv"), Where(QBaseTypes, "pq"))
  /\ bus_types = QBaseTypes
  /\ Sbus = SbusUnbound
  /\ z = [k \in 0 .. 2 * nb |-> IF k = 2 * nb THEN R(1) ELSE R(0)]
  /\ voltage_series = <<>>
  /\ lambda_series = <<>>
  /\ V0 = VBase
  /\ lam0 = R(0)
  /\ cV = VBase
  /\ clam = R(0)
  /\ i = 0
  /\ converged = FALSE
  /\ cnormF = R(0)
  /\ cmis = NaN
  /\ P = R(0)
  /\ dP_dV = <<>>
  /\ dP_dlam = R(0)
  /\ pc = "while"
  /\ exc = "none"
  /\ log = <<>>
  /\ NoOtdfCall

SpecQ == InitQ /\ [][Next]_vars

\* ------------------------------------------------------------ make_otdf_max
\* nk = ptdf.shape[0]: the number of branches
nk == 2

nl == nk

\* line 125: the loop over the buses is a prange from this many buses on
ParallelFrom == 500

\* the columns a ptdf is made of: the sensitivities of the nk branches to one bus
ColValues ==
  {[k \in 0 .. nk - 1 |-> IF k = 0 THEN 1 ELSE 0],
   [k \in 0 .. nk - 1 |-> IF k = 0 THEN -2 ELSE 1],
   [k \in 0 .. nk - 1 |-> IF k = 0 THEN 0 ELSE 2]}

LodfValues ==
  {[k \in 0 .. nk - 1 |-> [l \in 0 .. nl - 1 |-> IF k = l THEN 0 ELSE 1]],
   [k \in 0 .. nk - 1 |-> [l \in 0 .. nl - 1 |-> IF k = l THEN -1 ELSE 0]]}

\* the iterations that can write: the buses with a nonzero column; a ptdf of
\* nj > MaxCols columns has zeros in the others, whose val is 0 and never
\* passes the comparison
Cols == 0 .. MaxCols - 1

InitOtdf ==
  /\ FixedParams /\ FreshDriver /\ FreshCorrector
  /\ approximation_order = Natural
  /\ step = R(1)
  /\ pv = Where(BaseTypes, "pv")
  /\ pq = Where(BaseTypes, "pq")
  /\ pvpq = r_(Where(BaseTypes, "pv"), Where(BaseTypes, "pq"))
  /\ V = VBase /\ V_prev = VBase
  /\ lam = R(0) /\ lam_prev = R(0)
  /\ z = [k \in 0 .. 2 * nb |-> IF k = 2 * nb THEN R(1) ELSE R(0)]
  /\ V0 = VBase /\ lam0 = R(0)
  /\ cont_steps = 0
  /\ \E cols \in [Cols -> ColValues] :
       ptdf = [k \in 0 .. nk - 1 |-> [j \in Cols |-> cols[j][k]]]
  /\ lodf \in LodfValues
  /\ nj \in {MaxCols, ParallelFrom}
  /\ otdf = [k \in 0 .. nk - 1 |-> [l \in 0 .. nl - 1 |-> 0]]
  /\ kl = [j \in Cols |-> 0]
  /\ writing = [j \in Cols |-> FALSE]
  /\ val = [j \in Cols |-> 0]
  /\ pc = "make_otdf_max"

\* the pair (k, l) iteration j is at: for k in range(nk): for l in range(nl)
AtK(j) == kl[j] \div nl

AtL(j) == kl[j] % nl

\* "for j in range(nj)" runs the iterations one after the other;
\* "for j in nb.prange(nj)" lets every unfinished iteration take the next step
Runnable(j) ==
  /\ kl[j] < nk * nl
  /\ nj < ParallelFrom => \A h \in Cols : h < j => kl[h] = nk * nl

\* val = ptdf[k, j] + lodf[k, l] * ptdf[l, j]; if abs(val) > abs(otdf[k, l]):
Compare(j) ==
  /\ pc = "make_otdf_max"
  /\ Runnable(j) /\ ~writing[j]
  /\ LET v == ptdf[AtK(j)][j] + lodf[AtK(j)][AtL(j)] * ptdf[AtL(j)][j]
     IN /\ val' = [val EXCEPT ![j] = v]
        /\ IF Abs(v) > Abs(otdf[AtK(j)][AtL(j)])
           THEN writing' = [writing EXCEPT ![j] = TRUE] /\ UNCHANGED kl
           ELSE kl' = [kl EXCEPT ![j] = kl[j] + 1] /\ UNCHANGED writing
  /\ UNCHANGED <<ptdf, lodf, nj, otdf, pc>>
  /\ UNCHANGED <<params, step, approximation_order, adapt_step, pv, pq, lam, lam_prev, V,
                 V_prev, continuation, cont_steps, normF, success, pvpq, bus_types, Sbus, z,
                 voltage_series, lambda_series, V0, lam0, corrLocals, exc, log>>

\* otdf[k, l] = val
Write(j) ==
  /\ pc = "make_otdf_max"
  /\ Runnable(j) /\ writing[j]
  /\ otdf' = [otdf EXCEPT ![AtK(j)][AtL(j)] = val[j]]
  /\ writing' = [writing EXCEPT ![j] = FALSE]
  /\ kl' = [kl EXCEPT ![j] = kl[j] + 1]
  /\ UNCHANGED <<ptdf, lodf, nj, val, pc>>
  /\ UNCHANGED <<params, step, approximation_order, adapt_step, pv, pq, lam, lam_prev, V,
                 V_prev, continuation, cont_steps, normF, success, pvpq, bus_types, Sbus, z,
                 voltage_series, lambda_series, V0, lam0, corrLocals, exc, log>>

\* return otdf
ReturnOtdf ==
  /\ pc = "make_otdf_max"
  /\ \A j \in Cols : kl[j] = nk * nl
  /\ pc' = "returned"
  /\ UNCHANGED <<otdfVars, params, step, approximation_order, adapt_step, pv, pq, lam,
                 lam_prev, V, V_prev, continuation, cont_steps, normF, success, pvpq,
                 bus_types, Sbus, z, voltage_series, lambda_series, V0, lam0,
                 corrLocals, exc, log>>

NextOtdf == (\E j \in Cols : Compare(j)) \/ (\E j \in Cols : Write(j)) \/ ReturnOtdf

SpecOtdf == InitOtdf /\ [][NextOtdf]_vars

\* ------------------------------------------------------------------ claims
Last(s) == s[Len(s)]

IsCall(e) == e.fn \in {"predictor", "corrector"}

InStepBounds(st) == RGt(st, R(0)) /\ RLe(step_min, st) /\ RLe(st, step_max)

\* index of the last overshoot clamp logged before entry k (0 when none)
RECURSIVE LastClampBefore(_)
LastClampBefore(k) ==
  IF k <= 1 THEN 0
  ELSE IF log[k - 1].fn = "overshoot_clamp" THEN k - 1 ELSE LastClampBefore(k - 1)

\* the lambda-sequence of a trace: the base value 0 followed by lambda_series
LamSeq == <<R(0)>> \o lambda_series

\* C1: at the end of every loop iteration and on return both series have
\* exactly cont_steps entries, the last one being the point the last corrector
\* call returned (converged or not), and the series only grow by appending.
C1_SeriesLengths ==
  /\ [](pc \in {"while", "done"} =>
          /\ Len(voltage_series) = cont_steps
          /\ Len(lambda_series) = cont_steps
          /\ (cont_steps > 0 => Last(lambda_series) = lam))
  /\ [][/\ \/ lambda_series' = lambda_series
           \/ \E x \in {lam} : lambda_series' = Append(lambda_series, x)
        /\ \/ voltage_series' = voltage_series
           \/ Len(voltage_series') = Len(voltage_series) + 1
              /\ SubSeq(voltage_series', 1, Len(voltage_series)) = voltage_series
        /\ Len(voltage_series') = Len(lambda_series')]_vars

C1_Witness ==
  pc = "done" /\ ~success /\ cont_steps = 2 /\ Len(lambda_series) = 2 /\ exc = "none"

\* C2: once the corrector has returned converged = False, no exception is
\* raised, the failing corrector call is the last call of the trace (no
\* predictor, corrector, reactive-limit control, adaptation or callback after
\* it), and the driver returns the series ending in the failing point with
\* success = False.
C2_FailedStepEndsTrace ==
  (pc \in {"while", "done"} /\ cont_steps > 0 /\ ~success) =>
     /\ exc = "none"
     /\ ~continuation
     /\ Last(log).fn = "corrector" /\ Last(log).k = cont_steps
     /\ Len(lambda_series) = cont_steps
     /\ Last(lambda_series) = lam /\ Last(voltage_series) = V

C2_Witness ==
  pc = "done" /\ ~success /\ cont_steps = 3 /\ call_back_fx /\ controlQ = Direct /\ adapt_step

\* C3: with stop_at = Nose, after a successful step the driver stops if and
\* only if lam < lam_prev, and otherwise goes on to another step.
C3_NoseStopIff ==
  (pc \in {"while", "done"} /\ stop_at = Nose /\ success) =>
     /\ continuation <=> RGe(lam, lam_prev)
     /\ (pc = "done" => RLt(lam, lam_prev))

C3_Witness ==
  /\ pc = "done" /\ stop_at = Nose /\ success /\ cont_steps = 3
  /\ lambda_series[2] = lambda_series[1]

\* C4 (as stated): with stop_at = Nose, a trace that ends with success = True
\* has a lambda-sequence whose every value but the last is strictly greater
\* than its predecessor and whose last value is strictly below the one before.
C4_StrictlyIncreasingThenDown ==
  (pc = "done" /\ stop_at = Nose /\ success) =>
     /\ \A k \in 2 .. (Len(LamSeq) - 1) : RGt(LamSeq[k], LamSeq[k - 1])
     /\ RLt(LamSeq[Len(LamSeq)], LamSeq[Len(LamSeq) - 1])

\* C4 (amended): with stop_at = Nose, a trace that ends with success = True
\* has a lambda-sequence whose every value but the last is greater than or
\* equal to its predecessor and whose last value is strictly below the one
\* before.
C4_NonDecreasingThenDown ==
  (pc = "done" /\ stop_at = Nose /\ success) =>
     /\ \A k \in 2 .. (Len(LamSeq) - 1) : RGe(LamSeq[k], LamSeq[k - 1])
     /\ RLt(LamSeq[Len(LamSeq)], LamSeq[Len(LamSeq) - 1])

C4_Witness ==
  /\ pc = "done" /\ stop_at = Nose /\ success /\ Len(lambda_series) = 3
  /\ RGt(lambda_series[1], R(0)) /\ lambda_series[2] = lambda_series[1]

\* C5: with stop_at = Full, after a successful step the driver stops if and
\* only if abs(lam) < 1e-8, whether lam went up or down in that step.
C5_FullStopIff ==
  (pc \in {"while", "done"} /\ stop_at = Full /\ success) =>
     /\ ~continuation <=> RLt(RAbs(lam), LamZeroTol)
     /\ (pc = "done" => RLt(RAbs(lam), LamZeroTol))

C5_Witness ==
  /\ pc = "done" /\ stop_at = Full /\ success /\ Len(lambda_series) = 3
  /\ RLt(lambda_series[2], lambda_series[1])

\* C6 (as stated): with stop_at = Full every trace ends at a successful step
\* with abs(lam) < 1e-8, the parametrization forced to Natural and the step
\* adaptation turned off.
C6_FullAlwaysReturns ==
  (stop_at = Full /\ pc \in {"done", "raised"}) =>
     /\ pc = "done" /\ success /\ RLt(RAbs(lam), LamZeroTol)
     /\ approximation_order = Natural /\ ~adapt_step

\* C6 (amended): with stop_at = Full, a trace that returns has either
\* success = True and abs(lam) < 1e-8 or success = False after a corrector
\* that did not converge; and once the overshoot clamp has fired, the
\* parametrization is Natural and the adaptation is off: every later predictor
\* and corrector call gets Natural and no adaptation runs after it.
C6_FullReturnsOrFails ==
  stop_at = Full =>
     /\ pc = "done" =>
          IF success THEN RLt(RAbs(lam), LamZeroTol)
          ELSE Last(log).fn = "corrector" /\ ~converged
     /\ \A k \in 1 .. Len(log) :
          LastClampBefore(k) > 0 => /\ log[k].fn # "adapt"
                                    /\ log[k].par = Natural
     /\ (\E k \in 1 .. Len(log) : log[k].fn = "overshoot_clamp") =>
          (approximation_order = Natural \/ pc = "stopcheck") /\ ~adapt_step

C6_Witness ==
  /\ pc = "done" /\ stop_at = Full /\ success
  /\ \E k \in 1 .. Len(log) : log[k].fn = "overshoot_clamp" /\ log[k].par # Natural

\* C7 (as stated): a stop_at that is neither Nose nor Full is rejected on
\* entry: no predictor or corrector call is made and no point is recorded.
C7_RejectedAtEntry ==
  stop_at \notin VCStopAt => (log = <<>> /\ voltage_series = <<>> /\ lambda_series = <<>>)

\* C8 (as stated): a failing linear solve never makes an exception leave
\* continuation_nr.
C8_SolveFailureConverted == ~(pc = "raised" /\ exc = "solve")

\* C9 (as stated): when the trace starts with 0 < step_min <= step <= step_max,
\* every predictor and corrector call gets a step that is positive and inside
\* [step_min, step_max].
C9_StepAlwaysInBounds ==
  (log # <<>> /\ InStepBounds(log[1].step)) =>
     \A k \in 1 .. Len(log) : IsCall(log[k]) => InStepBounds(log[k].step)

\* C9 (amended): when the trace starts with 0 < step_min <= step <= step_max,
\* every predictor and corrector call made before the full-curve overshoot
\* clamp fires gets a step that is positive and inside [step_min, step_max];
\* a call made after a clamp gets the lambda at which the last clamp fired.
C9_StepInBoundsUntilClamp ==
  (log # <<>> /\ InStepBounds(log[1].step)) =>
     \A k \in 1 .. Len(log) : IsCall(log[k]) =>
        IF LastClampBefore(k) = 0 THEN InStepBounds(log[k].step)
        ELSE log[k].step = log[LastClampBefore(k)].lam

C9_Witness ==
  /\ pc = "corrector" /\ cont_steps = 3 /\ RLt(step, step_min)
  /\ InStepBounds(log[1].step)
  /\ \E k \in 1 .. Len(log) : log[k].fn = "overshoot_clamp"
  /\ \E k \in 1 .. Len(log) : log[k].fn = "adapt"

\* C10 (as stated): whenever the adaptation runs, the new step is
\* min(step_max, max(step_min, step * error_tol / cpf_error)).
C10_TwoSidedClamp ==
  [][(pc = "adapt" /\ adapt_step /\ continuation /\ RGt(step, R(0))
        /\ RGt(error_tol, R(0)) /\ RLe(step_min, step_max)) =>
       LET s == ScaledStep(step, error_tol, CpfError(V, lam, V0, lam0, pq, pvpq))
       IN step' = IF XLt(s, step_min) THEN step_min
                  ELSE IF XGt(s, step_max) THEN step_max ELSE XVal(s)]_vars

\* ------------------------------------------------------ claims C11 .. C17
\* the cpf_error of the step whose adaptation was logged last
LastCpfError == CpfError(V, lam, V0, lam0, pq, pvpq)

AdaptJustRan == pc = "callback" /\ Last(log).fn = "adapt"

\* the entries of the log that are calls of fn
CallsOf(fn) == SelectSeq(log, LAMBDA e : e.fn = fn)

\* C11: when the adaptation has run, cpf_error < error_tol gives a step
\* strictly larger than the one before unless the new step is step_max, and
\* cpf_error > error_tol gives a step strictly smaller than the one before
\* unless the new step is step_min.
C11_AdaptDirection ==
  AdaptJustRan =>
     /\ RLt(LastCpfError, error_tol) => (RGt(step, Last(log).step) \/ step = step_max)
     /\ RGt(LastCpfError, error_tol) => (RLt(step, Last(log).step) \/ step = step_min)

C11_Witness ==
  /\ AdaptJustRan /\ RGt(LastCpfError, error_tol)
  /\ RLt(step, Last(log).step) /\ step # step_min
  /\ \E j \in 1 .. (Len(log) - 1) :
       log[j].fn = "adapt" /\ RGt(log[j + 1].step, log[j].step)

\* C12: the adaptation never divides by zero (the new step is a number), and
\* when the corrected point equals the predicted one (cpf_error = 0) the step
\* that results is at most step_max.
C12_ZeroErrorFloor ==
  AdaptJustRan =>
     /\ ~IsNaN(step)
     /\ REq(LastCpfError, R(0)) => RLe(step, step_max)

C12_Witness ==
  /\ AdaptJustRan /\ REq(LastCpfError, R(0))
  /\ step = step_max /\ Last(log).step # step_max

\* C13: at the end of every loop iteration and on return, the lambdas the
\* callback was called with are the recorded lambdas of the successful steps,
\* one call per step in step order; the step of a corrector that did not
\* converge gets no call.
C13_CallbackPerSuccessfulStep ==
  (pc \in {"while", "done"} /\ call_back_fx) =>
     LET calls == CallsOf("call_back_fx")
         good == IF success \/ cont_steps = 0 THEN lambda_series
                 ELSE SubSeq(lambda_series, 1, Len(lambda_series) - 1)
     IN /\ Len(calls) = Len(good)
        /\ \A k \in 1 .. Len(calls) : calls[k].lam = good[k] /\ calls[k].k = k

C13_Witness ==
  /\ pc = "done" /\ call_back_fx /\ ~success /\ cont_steps = 3
  /\ Len(CallsOf("call_back_fx")) = 2
  /\ lambda_series[1] # lambda_series[2]

\* C14 (as stated): the reactive-limit control runs only after a converged
\* corrector step and only with controlQ = Direct, and once it has
\* reclassified a bus every later corrector call gets the bus power vector
\* re-derived from its result.
C14_RederivedInputsUsed ==
  \A k \in 1 .. Len(log) :
     /\ log[k].fn = "control_q_direct" =>
          /\ controlQ = Direct
          /\ k > 1 /\ log[k - 1].fn = "corrector" /\ log[k - 1].k = log[k].k
     /\ (log[k].fn = "corrector" /\ log[k].Sbus # SbusUnbound) =>
          log[k].Sbus_arg = log[k].Sbus

\* C15: inside and after a corrector call, converged is TRUE exactly when the
\* infinity-norm of the F evaluated last, [mismatch, P], is below tol, and
\* 0 <= i <= max_it; a call that returns without convergence has used all
\* max_it iterations and hands the driver success = FALSE, with no exception.
C15_CorrectorResult ==
  (pc \in {"newton", "record"}) =>
     /\ cnormF = RMax(cmis, RAbs(P))
     /\ converged <=> RLt(cnormF, tol)
     /\ 0 <= i /\ i <= max_it
     /\ pc = "record" =>
          /\ success = converged /\ normF = cnormF /\ exc = "none"
          /\ ~converged => i = max_it

C15_Witness ==
  pc = "record" /\ ~converged /\ i = max_it /\ i > 0 /\ ~IsNaN(cnormF) /\ cont_steps = 2

\* C17: a trace that returns with success = TRUE ended by the nose condition
\* (stop_at = Nose) or by abs(lam) < 1e-8 (stop_at = Full); one that returns
\* with success = FALSE ended by a corrector that did not converge; the normF
\* returned is the one of the last corrector call, and that call is the last
\* predictor or corrector call of the trace.
C17_SuccessFlag ==
  pc = "done" =>
     LET calls == SelectSeq(log, IsCall)
     IN /\ success => \/ stop_at = Nose /\ RLt(lam, lam_prev)
                      \/ stop_at = Full /\ RLt(RAbs(lam), LamZeroTol)
        /\ success <=> converged
        /\ normF = cnormF
        /\ Last(calls).fn = "corrector" /\ Last(calls).k = cont_steps
        /\ Len(calls) = 2 * cont_steps

C17_Witness ==
  /\ pc = "done" /\ success /\ stop_at = Nose /\ cont_steps = 2
  /\ normF # R(0) /\ Last(log).fn = "call_back_fx"

\* ------------------------------------------------------ claims C16, C18 .. C20
CorrectorCalls == CallsOf("corrector")

\* C16 (as stated): the corrector called on its own converged output reports
\* convergence in exactly 1 iteration and returns the same point.
C16_SecondCallOneIteration ==
  (pc = "record" /\ Len(CorrectorCalls) = 2) =>
     success /\ i = 1 /\ V = V0 /\ lam = lam0

\* C16 (amended): the corrector called on its own converged output reports
\* convergence with iteration count 0 (F is evaluated once, no Newton
\* iteration is run), a residual below tol, and returns the same point.
C16_SecondCallNoIteration ==
  (pc = "record" /\ Len(CorrectorCalls) = 2) =>
     /\ success /\ i = 0
     /\ V = V0 /\ lam = lam0
     /\ V = CorrectorCalls[2].V /\ lam = CorrectorCalls[2].lam
     /\ RLt(normF, tol)

C16_Witness ==
  /\ pc = "record" /\ Len(CorrectorCalls) = 2 /\ i = 0
  /\ CorrectorCalls[2].lam # CorrectorCalls[1].lam

\* the squared distance between the current and the previous point over
\* [angle at pvpq, magnitude at pq, lambda]
RECURSIVE SumOver(_, _)
SumOver(f, S) ==
  IF S = {} THEN R(0)
  ELSE LET b == CHOOSE x \in S : TRUE IN RAdd(f[b], SumOver(f, S \ {b}))

Elems(idx) == {idx[k] : k \in 1 .. Len(idx)}

Sq(x) == RMul(x, x)

SqDist(v, l) ==
  RAdd(RAdd(SumOver([b \in Bus |-> Sq(RSub(v[b].a, V_prev[b].a))], Elems(pvpq)),
            SumOver([b \in Bus |-> Sq(RSub(v[b].m, V_prev[b].m))], Elems(pq))),
       Sq(RSub(l, lam_prev)))

\* the point opposite to (V, lam) as seen from the previous point
MirrorV == [b \in Bus |-> [m |-> RSub(RMul(R(2), V_prev[b].m), V[b].m),
                           a |-> RSub(RMul(R(2), V_prev[b].a), V[b].a)]]

MirrorLam == RSub(RMul(R(2), lam_prev), lam)

\* C18: for Natural, cpf_p returns lam - lamprv - step when lam >= lamprv and
\* lamprv - lam - step otherwise (0 at lam = lamprv with step = 0), and
\* cpf_p_jac returns npv + 2 npq zeros with dP_dlam = 1 when lam >= lamprv
\* and -1 otherwise.
C18_NaturalScheme ==
  (pc = "evaluated" /\ approximation_order = Natural) =>
     /\ P = IF RGe(lam, lam_prev) THEN RSub(RSub(lam, lam_prev), step)
            ELSE RSub(RSub(lam_prev, lam), step)
     /\ (lam = lam_prev /\ step = R(0)) => P = R(0)
     /\ Len(dP_dV) = Len(pv) + 2 * Len(pq)
     /\ \A k \in 1 .. Len(dP_dV) : dP_dV[k] = R(0)
     /\ dP_dlam = IF RGe(lam, lam_prev) THEN R(1) ELSE R(-1)

C18_Witness ==
  /\ pc = "evaluated" /\ approximation_order = Natural
  /\ RLt(lam, lam_prev) /\ dP_dlam = R(-1) /\ P = R(0) /\ Len(dP_dV) = 4

\* C19: for ArcLength, cpf_p returns the squared distance between the current
\* and the previous point minus step squared; it is 0 exactly when that
\* distance is step, and the point opposite to the current one gets the same
\* value.
C19_ArcLengthScheme ==
  (pc = "evaluated" /\ approximation_order = ArcLength) =>
     /\ P = RSub(SqDist(V, lam), Sq(step))
     /\ P = R(0) <=> SqDist(V, lam) = Sq(step)
     /\ cpf_p(ArcLength, step, z, MirrorV, MirrorLam, V_prev, lam_prev, pv, pq, pvpq) = P

C19_Witness ==
  /\ pc = "evaluated" /\ approximation_order = ArcLength
  /\ P = R(0) /\ step = R(1) /\ V # V_prev /\ lam = lam_prev

\* C20 (as stated): for a parametrization that is none of the three schemes,
\* cpf_p and cpf_p_jac return what they return for Natural.
C20_FallbackIsNatural ==
  (pc = "evaluated" /\ approximation_order \notin VCParametrization) =>
     /\ P = cpf_p(Natural, step, z, V, lam, V_prev, lam_prev, pv, pq, pvpq)
     /\ dP_dV = cpf_p_jac(Natural, z, V, lam, V_prev, lam_prev, pv, pq, pvpq).dP_dV
     /\ dP_dlam = cpf_p_jac(Natural, z, V, lam, V_prev, lam_prev, pv, pq, pvpq).dP_dlam

\* ------------------------------------------------------ claims C21 .. C30
\* C21 (as stated): the z every predictor call returns has Euclidean norm 1
\* over its 2 nb + 1 entries.
C21_UnitTangent == pc = "corrector" => SumSq(ZSeq(z)) = R(1)

\* the overshoot clamp fired in the continuation step that is running
ClampedThisStep == log # <<>> /\ Last(log).fn = "overshoot_clamp" /\ Last(log).k = cont_steps

\* C22: with stop_at = Full, after a successful step that is not a return to
\* the origin, the clamp fires exactly when lam < lam_prev and lam - step < 0;
\* it sets step := lam, the parametrization to Natural and the adaptation off
\* before the adaptation block of that step is reached, and from then on
\* every predictor and corrector call gets Natural and no adaptation runs.
C22_ClampForcesNatural ==
  /\ (pc = "adapt" /\ stop_at = Full /\ ~FullTraced(lam)) =>
        IF ClampedThisStep
        THEN /\ Overshoot(lam, lam_prev, Last(log).step)
             /\ step = lam /\ approximation_order = Natural /\ ~adapt_step
        ELSE ~Overshoot(lam, lam_prev, step)
  /\ \A j \in 1 .. Len(log) : log[j].fn = "overshoot_clamp" =>
        /\ log[j].k >= 1 /\ stop_at = Full
        /\ \A m \in (j + 1) .. Len(log) :
              /\ log[m].fn # "adapt"
              /\ IsCall(log[m]) => (log[m].par = Natural /\ log[m].k > log[j].k)

C22_Witness ==
  /\ pc = "while" /\ cont_steps = 3
  /\ \E j \in 1 .. Len(log) :
       /\ log[j].fn = "overshoot_clamp" /\ log[j].par # Natural /\ log[j].k = 2
       /\ adapt_step \in {FALSE}
       /\ Last(log).fn = "corrector" /\ Last(log).par = Natural

\* the log entries after which the step may have a new value
ChangesStep(e) == e.fn \in {"adapt", "overshoot_clamp"}

\* C23: the step changes only in the adaptation block and in the full-curve
\* overshoot clamp; the adaptation block runs only after a converged step,
\* with adapt_step on and no stop condition fired in that step; with
\* adapt_step off and stop_at = Nose every predictor and corrector call gets
\* the same step; the terminating step leaves the step as its corrector got it.
C23_StepChangesOnlyInTwoPlaces ==
  /\ log = <<>> => step \in {c.s : c \in StepConfigs}
  /\ (log # <<>> /\ ~ChangesStep(Last(log))) => step = Last(log).step
  /\ \A j \in 1 .. Len(log) - 1 : ~ChangesStep(log[j]) => log[j + 1].step = log[j].step
  /\ (pc = "callback" /\ Last(log).fn = "adapt") =>
        /\ Last(log).k = cont_steps /\ success /\ converged /\ adapt_step /\ continuation
        /\ stop_at = Nose => ~NoseReached(lam, lam_prev)
        /\ stop_at = Full => (~FullTraced(lam) /\ ~Overshoot(lam, lam_prev, Last(log).step))
  /\ (stop_at = Nose /\ ~adapt_step) =>
        \A j \in 1 .. Len(log) : IsCall(log[j]) => log[j].step = log[1].step
  /\ pc = "done" => step = Last(CallsOf("corrector")).step

C23_Witness ==
  /\ pc = "done" /\ success /\ stop_at = Nose /\ cont_steps = 3
  /\ \E j \in 1 .. Len(log) : log[j].fn = "adapt" /\ log[j].step # step
  /\ step = Last(CallsOf("corrector")).step

\* the corrector's unknowns without lambda at the point v, in the order
\* [angle at pv, angle at pq, magnitude at pq]
Unknowns(v) ==
  [k \in 1 .. Len(pv) + 2 * Len(pq) |->
     IF k <= Len(pv) THEN v[pv[k]].a
     ELSE IF k <= Len(pv) + Len(pq) THEN v[pq[k - Len(pv)]].a
     ELSE v[pq[k - Len(pv) - Len(pq)]].m]

\* the slot of z that belongs to the k-th unknown
ZSlot(k) ==
  IF k <= Len(pv) THEN pv[k]
  ELSE IF k <= Len(pv) + Len(pq) THEN pq[k - Len(pv)]
  ELSE nb + pq[k - Len(pv) - Len(pq)]

\* C24: for ArcLength, cpf_p_jac returns dP_dV = 2 (current - previous) over
\* [angle at pvpq, magnitude at pq] and dP_dlam = 2 (lam - lamprv), except
\* dP_dlam = 1 when lam = lamprv; the row [dP_dV, dP_dlam] is never all zero.
C24_ArcLengthJac ==
  (pc = "evaluated" /\ approximation_order = ArcLength) =>
     /\ Len(dP_dV) = Len(pv) + 2 * Len(pq)
     /\ \A k \in 1 .. Len(dP_dV) :
          dP_dV[k] = RMul(R(2), RSub(Unknowns(V)[k], Unknowns(V_prev)[k]))
     /\ dP_dlam = IF lam = lam_prev THEN R(1) ELSE RMul(R(2), RSub(lam, lam_prev))
     /\ dP_dlam # R(0) \/ \E k \in 1 .. Len(dP_dV) : dP_dV[k] # R(0)

C24_Witness ==
  /\ pc = "evaluated" /\ approximation_order = ArcLength
  /\ V = V_prev /\ lam = lam_prev /\ dP_dlam = R(1)
  /\ \A k \in 1 .. Len(dP_dV) : dP_dV[k] = R(0)

\* C25: for PseudoArcLength, cpf_p_jac returns the slots of z at
\* [pv, pq, nb + pq] and at 2 nb, in the order of the corrector's unknowns
\* [angle(pv), angle(pq), magnitude(pq), lambda], and cpf_p returns the linear
\* function with those coefficients of (x - x_prev), minus step.
C25_PseudoArcLengthScheme ==
  (pc = "evaluated" /\ approximation_order = PseudoArcLength) =>
     /\ Len(dP_dV) = Len(pv) + 2 * Len(pq)
     /\ \A k \in 1 .. Len(dP_dV) : dP_dV[k] = z[ZSlot(k)]
     /\ dP_dlam = z[2 * nb]
     /\ P = RSub(RAdd(Dot(dP_dV, VSub(Unknowns(V), Unknowns(V_prev))),
                      RMul(dP_dlam, RSub(lam, lam_prev))),
                 step)

C25_Witness ==
  /\ pc = "evaluated" /\ approximation_order = PseudoArcLength
  /\ pv = <<1>> /\ z[nb + 2] = R(2) /\ z[2] = R(1) /\ V[2].m = R(3)
  /\ dP_dV = <<R(0), R(1), R(2)>> /\ dP_dlam = R(-1) /\ P = R(0)

\* C26: in every step the predictor is called on the current point with the
\* point before it as previous point, then the current point is saved as
\* previous point, then the corrector is called with the predicted guess and
\* the saved point, then its result is appended; the corrector's previous
\* point is the point the predictor extrapolated from, and the first predictor
\* call sees current = previous = base case, lam = 0 and z the unit vector of
\* the lambda slot.
C26_StepOrder ==
  /\ (pc = "predict" /\ cont_steps = 1) =>
        /\ log = <<>> /\ V = VBase /\ V_prev = VBase /\ lam = R(0) /\ lam_prev = R(0)
        /\ z = [k \in 0 .. 2 * nb |-> IF k = 2 * nb THEN R(1) ELSE R(0)]
  /\ \A j \in 1 .. Len(log) : log[j].fn = "corrector" =>
        /\ j > 1 /\ log[j - 1].fn = "predictor" /\ log[j - 1].k = log[j].k
        /\ log[j].Vprv = log[j - 1].V /\ log[j].lamprv = log[j - 1].lam
  /\ \A n \in 1 .. Len(CallsOf("predictor")) :
        LET preds == CallsOf("predictor")
        IN /\ preds[n].k = n
           /\ IF n = 1 THEN preds[n].Vprv = preds[n].V /\ preds[n].lamprv = preds[n].lam
              ELSE preds[n].Vprv = preds[n - 1].V /\ preds[n].lamprv = preds[n - 1].lam
  /\ pc = "corrector" =>
        /\ Last(log).fn = "predictor" /\ V_prev = V /\ lam_prev = lam
        /\ V0 = PredV0(V_prev, step, z, pv, pq) /\ lam0 = PredLam0(lam_prev, step, z)
        /\ Len(voltage_series) = cont_steps - 1
  /\ pc = "record" => (Last(log).fn = "corrector" /\ Len(voltage_series) = cont_steps - 1)
  /\ (pc \in {"controlq", "stopcheck", "adapt", "callback"}) =>
        /\ Len(voltage_series) = cont_steps
        /\ Last(voltage_series) = cV /\ Last(lambda_series) = clam

C26_Witness ==
  /\ pc = "record" /\ cont_steps = 2
  /\ Last(log).Vprv # VBase /\ Last(log).lamprv # R(0)
  /\ Last(log).Vprv = voltage_series[1] /\ Last(log).V # Last(log).Vprv

C27_LookupMatchesPartition ==
  pc \in {"predict", "corrector"} =>
     /\ pvpq = r_(pv, pq)
     /\ \A k \in 1 .. Len(r_(pv, pq)) : pvpq_lookup[r_(pv, pq)[k]] = k - 1

\* lam went down in some step of the trace, counted from the base value 0
LamDecreased == \E k \in 2 .. Len(LamSeq) : RLt(LamSeq[k], LamSeq[k - 1])

\* C29 (as stated): with stop_at = Full the trace ends by the full-curve
\* condition only after a successful step in which lam decreased, and never
\* at the first continuation step.
C29_FullOnlyAfterDecrease ==
  (pc = "done" /\ stop_at = Full /\ success) => (cont_steps >= 2 /\ LamDecreased)

\* C29 (amended): with stop_at = Full the trace ends by the full-curve
\* condition at the first successful step whose lam has abs(lam) < 1e-8:
\* no earlier recorded lam is that close to 0, and neither a decrease of lam
\* nor a step before it is needed, so it can be the first continuation step.
C29_FullEndsAtFirstReturn ==
  (stop_at = Full /\ pc \in {"adapt", "callback", "while", "done"} /\ success) =>
     /\ \A k \in 1 .. Len(lambda_series) - 1 : ~RLt(RAbs(lambda_series[k]), LamZeroTol)
     /\ RLt(RAbs(Last(lambda_series)), LamZeroTol) => ~continuation
     /\ pc = "done" => RLt(RAbs(Last(lambda_series)), LamZeroTol)

C29_Witness ==
  /\ pc = "done" /\ stop_at = Full /\ success /\ cont_steps = 1
  /\ lambda_series = <<R(0)>> /\ ~LamDecreased

\* the val of the pair (k, l) for bus j
OtdfVal(k, l, j) == ptdf[k][j] + lodf[k][l] * ptdf[l][j]

\* C30 (as stated): make_otdf_max returns, for every pair (k, l), the val of
\* largest absolute value over the buses, in the sequential branch and, under
\* every interleaving of its iterations, in the parallel branch.
C30_ReturnsMaximum ==
  pc = "returned" =>
     \A k \in 0 .. nk - 1, l \in 0 .. nl - 1 :
        /\ \A j \in Cols : Abs(otdf[k][l]) >= Abs(OtdfVal(k, l, j))
        /\ otdf[k][l] = 0 \/ \E j \in Cols : otdf[k][l] = OtdfVal(k, l, j)

====
